---- MODULE Spec2Model ----
(***************************************************************************)
(* A model of the financial research chatbot: data_retrieval.py (the       *)
(* three fetch operations and the document preparation) and main.py (the   *)
(* sequential script and its chatbot loop).                                *)
(*                                                                         *)
(* Text is modelled by strings, or by sequences of one-character strings   *)
(* where the code looks inside it (str.lower).  A JSON object is a         *)
(* sequence of <<key, value>> pairs, in the order of its keys.  A date     *)
(* is a timestamp record; pandas' NaT is the timestamp that is not valid.  *)
(***************************************************************************)
EXTENDS Integers, Sequences, FiniteSets, TLC

VARIABLES
    pc,                    \* position of the running script
    news_articles,         \* main: result of get_company_news
    stock_data,            \* main: result of get_stock_data (a frame)
    financial_statements,  \* main: result of get_financial_statements (a mapping)
    documents,             \* main: the document list
    vector_store,          \* main: the documents the vector store was built over
    qa_chain,              \* main: TRUE once create_qa_chain has returned
    printed,               \* the messages written to standard output, in order,
                           \* each a tuple of its parts
    raised,                \* the exception that escaped ("" when none did)
    stages,                \* the stages main() has run, in order
    responses,             \* what the external services answered, per operation
    inputs,                \* the lines read by the chatbot loop, in order
    questions              \* the questions forwarded to the chain, in order

vars == <<pc, news_articles, stock_data, financial_statements, documents,
          vector_store, qa_chain, printed, raised, stages, responses,
          inputs, questions>>

\* ------------------------------------------------------------------ bounds

\* Most records in one statement payload, and rows in one price frame, of
\* the direct calls of the data_retrieval functions.
MaxRows == 3
\* Most rows of the price history main() receives.
MaxStockRows == 8
\* Most lines the chatbot loop reads.
MaxInputs == 2

\* stock_data.tail(7)
TailRows == 7

\* ------------------------------------------------------------ small helpers

Range(s) == {s[i] : i \in DOMAIN s}

SeqsUpTo(S, n) == UNION {[1..k -> S] : k \in 0..n}

Min(a, b) == IF a <= b THEN a ELSE b

\* ------------------------------------------------------------------- dates

\* The dates that occur in the model, oldest first; a valid timestamp is a
\* position in this calendar.
Calendar == <<"2024-01-02", "2024-01-03", "2024-01-04", "2024-01-05",
              "2024-01-08", "2024-01-09", "2024-01-10", "2024-01-11",
              "2024-01-12", "2024-01-16", "2024-01-17", "2024-01-18">>

NaT == [valid |-> FALSE, ord |-> 0]

Timestamp(i) == [valid |-> TRUE, ord |-> i]

\* pd.to_datetime(value, errors='coerce') of one cell: a date string becomes
\* its timestamp, anything else (a missing cell included) becomes NaT.
to_datetime(s) ==
    IF \E i \in DOMAIN Calendar : Calendar[i] = s
    THEN Timestamp(CHOOSE i \in DOMAIN Calendar : Calendar[i] = s)
    ELSE NaT

\* Timestamp.strftime('%Y-%m-%d')
strftime(ts) == Calendar[ts.ord]

\* The comparison written with < where the code has <=.
DateBefore(ts, last) == ts.valid /\ last.valid /\ ts.ord < last.ord

\* ts <= last: a comparison with NaT is False.
DateLeq(ts, last) == ts.valid /\ last.valid /\ ts.ord <= last.ord

\* Series.max() of a date column: the latest valid date, NaT when there is none.
MaxDate(rows, col) ==
    LET valid == {i \in DOMAIN rows : rows[i][col].valid}
    IN  IF valid = {} THEN NaT
        ELSE rows[CHOOSE i \in valid :
                    \A j \in valid : rows[j][col].ord <= rows[i][col].ord][col]

\* ------------------------------------------------------------------ frames

\* pd.DataFrame(): no columns, no rows.
EmptyFrame == [columns |-> <<>>, rows |-> <<>>]

\* DataFrame.empty
IsEmpty(df) == Len(df.rows) = 0 \/ Len(df.columns) = 0

Keys(rec) == [i \in DOMAIN rec |-> rec[i][1]]

HasKey(rec, k) == \E i \in DOMAIN rec : rec[i][1] = k

\* The value of key k in a JSON object; a record without the key gives the
\* frame a missing cell.
Cell(rec, k) ==
    IF HasKey(rec, k) THEN rec[CHOOSE i \in DOMAIN rec : rec[i][1] = k][2]
    ELSE "NaN"

RECURSIVE AppendNew(_, _)
AppendNew(cols, ks) ==
    IF ks = <<>> THEN cols
    ELSE AppendNew(IF Head(ks) \in Range(cols) THEN cols
                   ELSE Append(cols, Head(ks)), Tail(ks))

\* The columns of pd.DataFrame(data): the keys of the records, in order of
\* first appearance, walking the records first to last.
RECURSIVE UnionColumns(_, _)
UnionColumns(cols, data) ==
    IF data = <<>> THEN cols
    ELSE UnionColumns(AppendNew(cols, Keys(Head(data))), Tail(data))

\* pd.DataFrame(data) of a list of JSON objects: one row per record, one
\* cell per column.
DataFrame(data) ==
    LET cols == UnionColumns(<<>>, data)
    IN  [columns |-> cols,
         rows    |-> [i \in DOMAIN data |->
                        [c \in Range(cols) |-> Cell(data[i], c)]]]

\* df[col] = pd.to_datetime(df[col], errors='coerce')
ConvertDates(df, col) ==
    [df EXCEPT !.rows = [i \in DOMAIN df.rows |->
                           [df.rows[i] EXCEPT ![col] = to_datetime(@)]]]

\* df.dropna(subset=[col]): the rows whose date is not NaT, in order.
DropNaT(df, col) ==
    [df EXCEPT !.rows = SelectSeq(df.rows, LAMBDA r : r[col].valid)]

\* df[df[col] <= last_available_date]
UpTo(df, col, last) ==
    [df EXCEPT !.rows = SelectSeq(df.rows, LAMBDA r : DateLeq(r[col], last))]

\* Lines 57-63 and 93-99: convert, drop the invalid dates, keep the rows up
\* to the last available date.
FilterDates(df, col) ==
    LET kept == DropNaT(df, col)
    IN  UpTo(kept, col, MaxDate(kept.rows, col))

\* What a function did: the value it returned, what it printed, and the
\* exception that escaped it ("" when it returned).
Outcome(result, out, exc) == [result |-> result, out |-> out, exc |-> exc]

\* ------------------------------------------------------- the HTTP responses

\* What requests.get / response.raise_for_status / response.json give:
\*   transport_error   requests.get raises a RequestException
\*   http_error        raise_for_status raises HTTPError, a RequestException
\*   invalid_json      response.json() raises: requests' own JSONDecodeError
\*                     (a RequestException) or a plain ValueError, depending
\*                     on the installed requests
\*   json              the decoded body
TransportError == [kind |-> "transport_error"]
HttpError == [kind |-> "http_error"]
InvalidJson == [kind |-> "invalid_json"]
JsonArray(items) == [kind |-> "json", type |-> "array", items |-> items]
JsonObject(members) == [kind |-> "json", type |-> "object", members |-> members]

NoResponse == [kind |-> "none"]

\* The two ways response.json() fails on a body that is not JSON.
JsonErrors == {"RequestException", "ValueError"}

\* ---------------------------------------------------------- get_company_news

\* data.get('news_results', []) of a decoded object.
NewsResults(members) ==
    IF HasKey(members, "news_results") THEN Cell(members, "news_results")
    ELSE <<>>

get_company_news(resp, jsonError) ==
    CASE resp.kind \in {"transport_error", "http_error"} ->
            Outcome(<<>>, <<<<"Request exception">>>>, "")
      [] resp.kind = "invalid_json" ->
            IF jsonError = "RequestException"
            THEN Outcome(<<>>, <<<<"Request exception">>>>, "")
            ELSE Outcome(<<>>, <<>>, "ValueError")
      [] resp.kind = "json" /\ resp.type = "array" ->
            \* 'error' in data is False for a list; data.get does not exist
            Outcome(<<>>, <<>>, "AttributeError")
      [] OTHER ->
            IF HasKey(resp.members, "error")
            THEN Outcome(<<>>, <<<<"SERPAPI error">>>>, "")
            ELSE Outcome(NewsResults(resp.members), <<>>, "")

\* ------------------------------------------------------------ get_stock_data

\* stock.history(...) either raises or returns a frame indexed by date;
\* reset_index makes the index the column 'Date'.
HistoryRaises == [kind |-> "exception"]
HistoryFrame(rows) == [kind |-> "frame", columns |-> <<"Date", "Close">>, rows |-> rows]

get_stock_data(resp) ==
    IF resp.kind = "exception"
    THEN Outcome(EmptyFrame, <<<<"Exception while fetching stock data">>>>, "")
    ELSE LET df == [columns |-> resp.columns, rows |-> resp.rows]
         IN  IF IsEmpty(df)
             THEN Outcome(EmptyFrame, <<<<"No stock data found.">>>>, "")
             ELSE Outcome(FilterDates(ConvertDates(df, "Date"), "Date"),
                          <<<<"Sample Stock Data:">>>>, "")

\* -------------------------------------------------- get_financial_statements

\* The endpoints dictionary, in insertion order.
StatementTypes == <<"income_statement", "balance_sheet", "cash_flow">>

\* One pass of the loop body (lines 84-110) for one statement type.
FetchStatement(statement_type, resp, jsonError) ==
    CASE resp.kind \in {"transport_error", "http_error"} ->
            Outcome(EmptyFrame, <<<<"Request exception for", statement_type>>>>, "")
      [] resp.kind = "invalid_json" ->
            IF jsonError = "RequestException"
            THEN Outcome(EmptyFrame, <<<<"Request exception for", statement_type>>>>, "")
            ELSE Outcome(EmptyFrame, <<>>, "ValueError")
      [] resp.kind = "json" /\ resp.type = "object" ->
            IF resp.members = <<>>
            THEN Outcome(EmptyFrame, <<<<"Raw data for", statement_type>>,
                                       <<"No data found for", statement_type>>>>, "")
            \* pd.DataFrame of a dict of scalars
            ELSE Outcome(EmptyFrame, <<<<"Raw data for", statement_type>>>>, "ValueError")
      [] OTHER ->
            IF resp.items = <<>>
            THEN Outcome(EmptyFrame, <<<<"Raw data for", statement_type>>,
                                       <<"No data found for", statement_type>>>>, "")
            ELSE LET df == DataFrame(resp.items)
                 IN  IF "date" \notin Range(df.columns)
                     \* df['date'] of a frame without that column
                     THEN Outcome(EmptyFrame, <<<<"Raw data for", statement_type>>>>,
                                  "KeyError")
                     ELSE LET kept == FilterDates(ConvertDates(df, "date"), "date")
                          IN  IF IsEmpty(kept)
                              THEN Outcome(EmptyFrame,
                                           <<<<"Raw data for", statement_type>>,
                                             <<"No valid data found for", statement_type>>>>, "")
                              ELSE Outcome(kept, <<<<"Raw data for", statement_type>>>>, "")

\* The loop with the entry written only when the request gave a table.
RECURSIVE FetchStatementsSkippingFailed(_, _, _, _)
FetchStatementsSkippingFailed(i, resps, jsonError, acc) ==
    IF i > Len(StatementTypes) \/ acc.exc # "" THEN acc
    ELSE LET o == FetchStatement(StatementTypes[i], resps[i], jsonError)
         IN  FetchStatementsSkippingFailed(i + 1, resps, jsonError,
                Outcome(IF o.exc = "" /\ ~IsEmpty(o.result)
                        THEN Append(acc.result, <<StatementTypes[i], o.result>>)
                        ELSE acc.result,
                        acc.out \o o.out, o.exc))

\* The loop over the endpoints: resps[i] answers the i-th endpoint.  The
\* mapping is a sequence of <<statement_type, frame>> in insertion order.
\* An exception ends the loop: the later endpoints are never requested.
RECURSIVE FetchStatements(_, _, _, _)
FetchStatements(i, resps, jsonError, acc) ==
    IF i > Len(StatementTypes) \/ acc.exc # "" THEN acc
    ELSE LET o == FetchStatement(StatementTypes[i], resps[i], jsonError)
         IN  FetchStatements(i + 1, resps, jsonError,
                Outcome(IF o.exc = "" THEN Append(acc.result, <<StatementTypes[i], o.result>>)
                        ELSE acc.result,
                        acc.out \o o.out, o.exc))

get_financial_statements(resps, jsonError) ==
    FetchStatements(1, resps, jsonError, Outcome(<<>>, <<>>, ""))

\* ------------------------------------------------------ document preparation

Document(page_content, metadata) ==
    [page_content |-> page_content, metadata |-> metadata]

\* article.get(key): the value, or None.
Get(article, key) == IF HasKey(article, key) THEN Cell(article, key) ELSE "None"

\* One news document: the four labelled lines and the metadata.
NewsDocument(article) ==
    Document(<<<<"Title", Get(article, "title")>>,
               <<"Snippet", Get(article, "snippet")>>,
               <<"Date", Get(article, "date")>>,
               <<"Link", Get(article, "link")>>>>,
             [source |-> "news",
              title  |-> Get(article, "title"),
              date   |-> Get(article, "date"),
              link   |-> Get(article, "link")])

prepare_news_documents(articles) ==
    [i \in DOMAIN articles |-> NewsDocument(articles[i])]

\* statement_type.replace('_', ' ').capitalize()
ReportTitle(statement_type) ==
    CASE statement_type = "income_statement" -> "Income statement"
      [] statement_type = "balance_sheet" -> "Balance sheet"
      [] statement_type = "cash_flow" -> "Cash flow"
      [] OTHER -> statement_type

IncomeMetrics == <<"revenue", "netIncome", "eps">>
BalanceMetrics == <<"totalAssets", "totalLiabilities", "totalStockholdersEquity">>
CashFlowMetrics == <<"operatingCashFlow", "capitalExpenditure", "freeCashFlow">>

\* Lines 140-147: the labels key_metrics is taken over.  A row of a frame
\* has every column of the frame as a label.
KeyMetrics(columns) ==
    IF "revenue" \in Range(columns) THEN IncomeMetrics
    ELSE IF "totalAssets" \in Range(columns) THEN BalanceMetrics
    ELSE IF "operatingCashFlow" \in Range(columns) THEN CashFlowMetrics
    ELSE columns

\* Lines 148-150: one line per metric that is not the date.
MetricLines(row, metrics) ==
    LET shown == SelectSeq(metrics, LAMBDA col : col # "date")
    IN  [i \in DOMAIN shown |-> <<shown[i], row[shown[i]]>>]

\* Lines 137-155 for one row: the document, or the exception raised.
\*   no 'date' label: row.get gives the str 'N/A', which has no strftime
\*   NaT date:        NaT.strftime raises ValueError
\*   row[[...]] with a label the row does not have raises KeyError
RowDocument(statement_type, columns, row) ==
    IF "date" \notin Range(columns) THEN Outcome(<<>>, <<>>, "AttributeError")
    ELSE IF ~row["date"].valid THEN Outcome(<<>>, <<>>, "ValueError")
    ELSE LET date == strftime(row["date"])
             metrics == KeyMetrics(columns)
         IN  IF \E i \in DOMAIN metrics : metrics[i] \notin Range(columns)
             THEN Outcome(<<>>, <<>>, "KeyError")
             ELSE Outcome(
                    <<Document(<<<<ReportTitle(statement_type), "Report for", date>>>>
                                 \o MetricLines(row, metrics),
                               [source |-> statement_type, date |-> date])>>,
                    <<>>, "")

\* The inner loop over df.iterrows(), from row i on.
RECURSIVE FrameDocuments(_, _, _, _)
FrameDocuments(statement_type, df, i, acc) ==
    IF i > Len(df.rows) \/ acc.exc # "" THEN acc
    ELSE LET o == RowDocument(statement_type, df.columns, df.rows[i])
         IN  FrameDocuments(statement_type, df, i + 1,
                            Outcome(acc.result \o o.result, acc.out, o.exc))

\* The outer loop over financial_statements.items(), from item k on.
RECURSIVE StatementDocuments(_, _, _)
StatementDocuments(statements, k, acc) ==
    IF k > Len(statements) \/ acc.exc # "" THEN acc
    ELSE LET statement_type == statements[k][1]
             df == statements[k][2]
         IN  StatementDocuments(statements, k + 1,
                IF ~IsEmpty(df)
                THEN FrameDocuments(statement_type, df, 1, acc)
                ELSE Outcome(acc.result,
                             acc.out \o <<<<"No data available to prepare documents for",
                                            statement_type>>>>,
                             ""))

prepare_financial_documents(statements) ==
    StatementDocuments(statements, 1, Outcome(<<>>, <<>>, ""))

prepare_all_documents(articles, statements) ==
    LET news_docs == prepare_news_documents(articles)
        financial == prepare_financial_documents(statements)
    IN  Outcome(news_docs \o financial.result, financial.out, financial.exc)

\* ------------------------------------------------------------ sample inputs

\* Two news results; the second lacks a snippet and a link.
ArticleA == <<<<"title", "Acme beats estimates">>, <<"snippet", "Record quarter">>,
              <<"date", "2 days ago">>, <<"link", "https://news.example/a">>>>
ArticleB == <<<<"title", "Acme names new CFO">>, <<"date", "1 week ago">>>>

\* Statement records as the statements API sends them, and records that are
\* short of some keys.
IncomeRecord == <<<<"date", "2024-01-05">>, <<"revenue", "100">>,
                  <<"netIncome", "20">>, <<"eps", "2">>>>
OlderIncomeRecord == <<<<"date", "2024-01-02">>, <<"revenue", "90">>,
                       <<"netIncome", "15">>, <<"eps", "1">>>>
BalanceRecord == <<<<"date", "2024-01-05">>, <<"totalAssets", "500">>,
                   <<"totalLiabilities", "300">>,
                   <<"totalStockholdersEquity", "200">>>>
CashFlowRecord == <<<<"date", "2024-01-03">>, <<"operatingCashFlow", "40">>,
                    <<"capitalExpenditure", "-10">>, <<"freeCashFlow", "30">>>>
ProfileRecord == <<<<"symbol", "ACME">>, <<"date", "2024-01-04">>,
                   <<"period", "Q1">>>>
BadDateRecord == <<<<"date", "n/a">>, <<"revenue", "80">>,
                   <<"netIncome", "10">>, <<"eps", "1">>>>
RevenueOnlyRecord == <<<<"date", "2024-01-05">>, <<"revenue", "100">>>>
UndatedRecord == <<<<"symbol", "ACME">>, <<"period", "Q2">>>>

\* The body the statements API sends with status 200 when it refuses.
ErrorObject == JsonObject(<<<<"Error Message", "Limit Reach">>>>)

\* The i-th row of a price history.
StockRow(i) == [Date |-> Calendar[i], Close |-> 100 + i]

StockFrame(n) == HistoryFrame([i \in 1..n |-> StockRow(i)])

\* ------------------------------------------------------------- main(): data

NewsResponses ==
    {TransportError, HttpError, InvalidJson, JsonArray(<<>>),
     JsonObject(<<<<"error", "Invalid API key.">>>>),
     JsonObject(<<<<"search_metadata", "Success">>>>),
     JsonObject(<<<<"news_results", <<>>>>>>),
     JsonObject(<<<<"news_results", <<ArticleA>>>>>>),
     JsonObject(<<<<"news_results", <<ArticleA, ArticleB>>>>>>)}

StockResponses == {HistoryRaises} \cup {StockFrame(n) : n \in 0..MaxStockRows}

StatementResponses ==
    {TransportError, ErrorObject, JsonArray(<<>>), JsonArray(<<IncomeRecord>>),
     JsonArray(<<BadDateRecord>>), JsonArray(<<RevenueOnlyRecord>>)}

\* ------------------------------------------------------------------ main()

Init ==
    /\ pc = "start"
    /\ news_articles = <<>>
    /\ stock_data = EmptyFrame
    /\ financial_statements = <<>>
    /\ documents = <<>>
    /\ vector_store = <<>>
    /\ qa_chain = FALSE
    /\ printed = <<>>
    /\ raised = ""
    /\ stages = <<>>
    /\ responses = [news |-> NoResponse, stock |-> NoResponse, statements |-> <<>>]
    /\ inputs = <<>>
    /\ questions = <<>>

\* Line 108.
FetchNews ==
    /\ pc = "start"
    /\ \E resp \in NewsResponses, jsonError \in JsonErrors :
         LET o == get_company_news(resp, jsonError)
         IN  /\ responses' = [responses EXCEPT !.news = resp]
             /\ stages' = Append(stages, "news")
             /\ printed' = printed \o <<<<"Fetching data...">>>> \o o.out
             /\ raised' = o.exc
             /\ news_articles' = IF o.exc = "" THEN o.result ELSE news_articles
             /\ pc' = IF o.exc = "" THEN "news_fetched" ELSE "crashed"
    /\ UNCHANGED <<stock_data, financial_statements, documents, vector_store,
                   qa_chain, inputs, questions>>

\* Line 109.
FetchStock ==
    /\ pc = "news_fetched"
    /\ \E resp \in StockResponses :
         LET o == get_stock_data(resp)
         IN  /\ responses' = [responses EXCEPT !.stock = resp]
             /\ stages' = Append(stages, "stock")
             /\ printed' = printed \o o.out
             /\ stock_data' = o.result
             /\ pc' = "stock_fetched"
    /\ UNCHANGED <<news_articles, financial_statements, documents, vector_store,
                   qa_chain, raised, inputs, questions>>

\* Lines 110-119.
FetchFinancialStatements ==
    /\ pc = "stock_fetched"
    /\ \E resps \in [1..Len(StatementTypes) -> StatementResponses],
          jsonError \in JsonErrors :
         LET o == get_financial_statements(resps, jsonError)
         IN  /\ responses' = [responses EXCEPT !.statements = resps]
             /\ stages' = Append(stages, "statements")
             /\ raised' = o.exc
             /\ financial_statements' =
                    IF o.exc = "" THEN o.result ELSE financial_statements
             /\ printed' = printed \o o.out \o
                    (IF o.exc = "" THEN <<<<"Stock Data Retrieved:">>,
                                          <<"Financial Statements Retrieved:">>>>
                     ELSE <<>>)
             /\ pc' = IF o.exc = "" THEN "fetched" ELSE "crashed"
    /\ UNCHANGED <<news_articles, stock_data, documents, vector_store,
                   qa_chain, inputs, questions>>

\* stock_data.head(7) in place of tail(7).
FirstRows(rows) == SubSeq(rows, 1, Min(TailRows, Len(rows)))

\* stock_data.tail(7): the last seven rows, or all of them when fewer.
LastRows(rows) == SubSeq(rows, Len(rows) - Min(TailRows, Len(rows)) + 1, Len(rows))

\* Lines 126-130: to_string lays out one line per row.
StockDocument(df) ==
    LET recent == LastRows(df.rows)
    IN  Document(<<<<"Recent stock data:">>>> \o
                   [i \in DOMAIN recent |->
                      <<strftime(recent[i]["Date"]), recent[i]["Close"]>>],
                 [source |-> "stock_data"])

\* Lines 121-137.
PrepareDocuments ==
    /\ pc = "fetched"
    /\ LET o == prepare_all_documents(news_articles, financial_statements)
       IN  /\ stages' = Append(stages, "documents")
           /\ raised' = o.exc
           /\ pc' = IF o.exc = "" THEN "prepared" ELSE "crashed"
           /\ documents' =
                 IF o.exc # "" THEN documents
                 ELSE IF ~IsEmpty(stock_data)
                      THEN Append(o.result, StockDocument(stock_data))
                      ELSE o.result
           /\ printed' = printed \o <<<<"Preparing documents for retrieval...">>>> \o o.out \o
                 (IF o.exc = "" /\ IsEmpty(stock_data)
                  THEN <<<<"No recent stock data available.">>>> ELSE <<>>) \o
                 (IF o.exc = "" THEN [i \in DOMAIN documents' |-> <<"Document content:">>]
                  ELSE <<>>)
    /\ UNCHANGED <<news_articles, stock_data, financial_statements, vector_store,
                   qa_chain, responses, inputs, questions>>

\* Lines 139-141.
ExitWithoutDocuments ==
    /\ pc = "prepared"
    /\ documents = <<>>
    /\ printed' = Append(printed,
                         <<"No documents available to build the vector store. Exiting.">>)
    /\ pc' = "done"
    /\ UNCHANGED <<news_articles, stock_data, financial_statements, documents,
                   vector_store, qa_chain, raised, stages, responses, inputs,
                   questions>>

\* Lines 143-145.
BuildVectorStore ==
    /\ pc = "prepared"
    /\ documents # <<>>
    /\ vector_store' = documents
    /\ stages' = Append(stages, "vector_store")
    /\ printed' = Append(printed, <<"Building vector store...">>)
    /\ pc' = "store_built"
    /\ UNCHANGED <<news_articles, stock_data, financial_statements, documents,
                   qa_chain, raised, responses, inputs, questions>>

\* Lines 147-148.
LoadLanguageModel ==
    /\ pc = "store_built"
    /\ stages' = Append(stages, "language_model")
    /\ printed' = Append(printed, <<"Loading language model...">>)
    /\ pc' = "model_loaded"
    /\ UNCHANGED <<news_articles, stock_data, financial_statements, documents,
                   vector_store, qa_chain, raised, responses, inputs, questions>>

\* The chain set up right after the documents, before any vector store.
CreateQAChainBeforeStore ==
    /\ pc = "prepared"
    /\ documents # <<>>
    /\ qa_chain' = TRUE
    /\ stages' = Append(stages, "qa_chain")
    /\ printed' = printed \o <<<<"Setting up QA chain...">>, <<"Expected input keys:">>>>
    /\ pc' = "chain_ready"
    /\ UNCHANGED <<news_articles, stock_data, financial_statements, documents,
                   vector_store, raised, responses, inputs, questions>>

\* Lines 150-151.
CreateQAChain ==
    /\ pc = "model_loaded"
    /\ qa_chain' = TRUE
    /\ stages' = Append(stages, "qa_chain")
    /\ printed' = printed \o <<<<"Setting up QA chain...">>, <<"Expected input keys:">>>>
    /\ pc' = "chain_ready"
    /\ UNCHANGED <<news_articles, stock_data, financial_statements, documents,
                   vector_store, raised, responses, inputs, questions>>

\* Line 153.
StartChatbot ==
    /\ pc = "chain_ready"
    /\ stages' = Append(stages, "loop")
    /\ printed' = Append(printed,
                         <<"Chatbot is ready! Type 'exit' or 'quit' to end the conversation.">>)
    /\ pc' = "loop"
    /\ UNCHANGED <<news_articles, stock_data, financial_statements, documents,
                   vector_store, qa_chain, raised, responses, inputs, questions>>

\* -------------------------------------------------------- the chatbot loop

UpperCase == <<"A", "B", "C", "D", "E", "F", "G", "H", "I", "J", "K", "L", "M",
               "N", "O", "P", "Q", "R", "S", "T", "U", "V", "W", "X", "Y", "Z">>
LowerCase == <<"a", "b", "c", "d", "e", "f", "g", "h", "i", "j", "k", "l", "m",
               "n", "o", "p", "q", "r", "s", "t", "u", "v", "w", "x", "y", "z">>

\* str.lower(): every upper-case letter becomes its lower-case letter, every
\* other character stays.
lower(text) ==
    [i \in DOMAIN text |->
       IF \E k \in DOMAIN UpperCase : UpperCase[k] = text[i]
       THEN LowerCase[CHOOSE k \in DOMAIN UpperCase : UpperCase[k] = text[i]]
       ELSE text[i]]

\* ['exit', 'quit']
ExitWords == {<<"e", "x", "i", "t">>, <<"q", "u", "i", "t">>}

\* The comparison without the lower().
IsExitAsTyped(user_query) == user_query \in ExitWords

\* Line 156.
IsExit(user_query) == lower(user_query) \in ExitWords

\* The lines a user types in the model.
UserInputs ==
    {<<"e", "x", "i", "t">>, <<"Q", "u", "I", "T">>, <<" ", "e", "x", "i", "t">>,
     <<>>, <<"e", "p", "s", "?">>}

\* qa_chain.invoke({'question': question}): the chain's reply.
Answer(question) == <<"answer to">> \o question

\* Line 161: what is printed for a reply.
Reply(question) == <<"Chatbot:">> \o Answer(question)

\* Lines 155-161: one pass of the loop.
ReadInput ==
    /\ pc = "loop"
    /\ Len(inputs) < MaxInputs
    /\ \E user_query \in UserInputs :
         /\ inputs' = Append(inputs, user_query)
         /\ IF IsExit(user_query)
            THEN /\ printed' = Append(printed, <<"Chatbot: Goodbye!">>)
                 /\ pc' = "done"
                 /\ UNCHANGED questions
            ELSE /\ questions' = Append(questions, user_query)
                 /\ printed' = Append(printed, Reply(user_query))
                 /\ pc' = "loop"
    /\ UNCHANGED <<news_articles, stock_data, financial_statements, documents,
                   vector_store, qa_chain, raised, stages, responses>>

Next ==
    \/ FetchNews
    \/ FetchStock
    \/ FetchFinancialStatements
    \/ PrepareDocuments
    \/ ExitWithoutDocuments
    \/ BuildVectorStore
    \/ LoadLanguageModel
    \/ CreateQAChain
    \/ StartChatbot
    \/ ReadInput

Spec == Init /\ [][Next]_vars

\* ------------------------------------- direct calls of the data functions
\* The functions of data_retrieval.py called on their own, on payloads richer
\* than the ones main() is run on above: the position pc = "call" is a caller
\* about to call one of them.

RecordSamples ==
    {IncomeRecord, OlderIncomeRecord, BalanceRecord, CashFlowRecord,
     ProfileRecord, BadDateRecord, RevenueOnlyRecord, UndatedRecord}

\* The lists of records one endpoint may answer with.
Payloads == SeqsUpTo(RecordSamples, MaxRows)

\* What the two other endpoints answer meanwhile.
PlainResponses == {TransportError, InvalidJson, JsonArray(<<>>)}

\* Price rows whose index entry may be missing.
StockRowSamples ==
    {[Date |-> "2024-01-02", Close |-> 101], [Date |-> "2024-01-03", Close |-> 102],
     [Date |-> "NaT", Close |-> 103]}

ArticleLists == {<<>>, <<ArticleB>>, <<ArticleA, ArticleB>>}

InitCalls ==
    /\ pc = "call"
    /\ news_articles = <<>>
    /\ stock_data = EmptyFrame
    /\ financial_statements = <<>>
    /\ documents = <<>>
    /\ vector_store = <<>>
    /\ qa_chain = FALSE
    /\ printed = <<>>
    /\ raised = ""
    /\ stages = <<>>
    /\ responses = [news |-> NoResponse, stock |-> NoResponse, statements |-> <<>>]
    /\ inputs = <<>>
    /\ questions = <<>>

\* get_financial_statements(ticker_symbol)
CallGetFinancialStatements ==
    /\ pc = "call"
    /\ \E k \in DOMAIN StatementTypes, payload \in Payloads,
          other \in PlainResponses, jsonError \in JsonErrors :
         LET resps == [i \in DOMAIN StatementTypes |->
                         IF i = k THEN JsonArray(payload) ELSE other]
             o == get_financial_statements(resps, jsonError)
         IN  /\ responses' = [responses EXCEPT !.statements = resps]
             /\ stages' = Append(stages, "get_financial_statements")
             /\ printed' = printed \o o.out
             /\ raised' = o.exc
             /\ financial_statements' =
                    IF o.exc = "" THEN o.result ELSE financial_statements
             /\ pc' = IF o.exc = "" THEN "statements" ELSE "crashed"
    /\ UNCHANGED <<news_articles, stock_data, documents, vector_store, qa_chain,
                   inputs, questions>>

\* prepare_all_documents(news_articles, financial_statements), on the
\* statements get_financial_statements returned
CallPrepareAllDocuments ==
    /\ pc = "statements"
    /\ \E articles \in ArticleLists :
         LET o == prepare_all_documents(articles, financial_statements)
         IN  /\ news_articles' = articles
             /\ stages' = Append(stages, "prepare_all_documents")
             /\ printed' = printed \o o.out
             /\ raised' = o.exc
             /\ documents' = IF o.exc = "" THEN o.result ELSE documents
             /\ pc' = IF o.exc = "" THEN "documents" ELSE "crashed"
    /\ UNCHANGED <<stock_data, financial_statements, vector_store, qa_chain,
                   responses, inputs, questions>>

\* get_stock_data(ticker_symbol)
CallGetStockData ==
    /\ pc = "call"
    /\ \E rows \in SeqsUpTo(StockRowSamples, MaxRows) :
         LET resp == HistoryFrame(rows)
             o == get_stock_data(resp)
         IN  /\ responses' = [responses EXCEPT !.stock = resp]
             /\ stages' = Append(stages, "get_stock_data")
             /\ printed' = printed \o o.out
             /\ stock_data' = o.result
             /\ pc' = "stock"
    /\ UNCHANGED <<news_articles, financial_statements, documents, vector_store,
                   qa_chain, raised, inputs, questions>>

NextCalls ==
    \/ CallGetFinancialStatements
    \/ CallPrepareAllDocuments
    \/ CallGetStockData

SpecCalls == InitCalls /\ [][NextCalls]_vars

\* ================================================================== claims

Printed(message) == \E i \in DOMAIN printed : printed[i] = message

Ran(stage) == \E i \in DOMAIN stages : stages[i] = stage

\* The exception that ended the run escaped from this stage.
Escaped(stage) == pc = "crashed" /\ stages # <<>> /\ stages[Len(stages)] = stage

NewsFailed(resp) ==
    \/ resp.kind \in {"transport_error", "http_error", "invalid_json"}
    \/ /\ resp.kind = "json"
       /\ \/ resp.type = "array"
          \/ HasKey(resp.members, "error")
          \/ ~HasKey(resp.members, "news_results")

StockFailed(resp) ==
    \/ resp.kind = "exception"
    \/ resp.kind = "frame" /\ resp.rows = <<>>

StatementFailed(resp) ==
    \/ resp.kind \in {"transport_error", "http_error", "invalid_json"}
    \/ /\ resp.kind = "json"
       /\ \/ resp.type = "object"
          \/ resp.items = <<>>
          \/ \A i \in DOMAIN resp.items :
                ~to_datetime(Cell(resp.items[i], "date")).valid

\* C1: in each of the three fetch operations every failure of the external
\* call or of its payload ends with an error message printed and an empty
\* result returned, and no exception escapes to the caller.
C1_EveryFetchFailureIsHandled ==
    /\ Ran("news") /\ NewsFailed(responses.news) =>
          /\ ~Escaped("news")
          /\ news_articles = <<>>
          /\ Printed(<<"Request exception">>) \/ Printed(<<"SERPAPI error">>)
    /\ Ran("stock") /\ StockFailed(responses.stock) =>
          /\ ~Escaped("stock")
          /\ stock_data = EmptyFrame
          /\ \/ Printed(<<"Exception while fetching stock data">>)
             \/ Printed(<<"No stock data found.">>)
    /\ Ran("statements") =>
          \A k \in DOMAIN StatementTypes :
             StatementFailed(responses.statements[k]) =>
                /\ ~Escaped("statements")
                /\ financial_statements[k] = <<StatementTypes[k], EmptyFrame>>
                /\ \/ Printed(<<"Request exception for", StatementTypes[k]>>)
                   \/ Printed(<<"No data found for", StatementTypes[k]>>)
                   \/ Printed(<<"No valid data found for", StatementTypes[k]>>)

\* The stages of main(), in the order of its lines.
StageOrder == <<"news", "stock", "statements", "documents", "vector_store",
                "language_model", "qa_chain", "loop">>

\* C2: in every run of main() the stages happen in the fixed order, each at
\* most once; no question is forwarded to the chain before the vector store
\* and the chain are built, and no fetch happens after the loop has started.
C2_StagesInFixedOrder ==
    /\ Len(stages) <= Len(StageOrder)
    /\ stages = SubSeq(StageOrder, 1, Len(stages))
    /\ inputs # <<>> => Ran("loop")
    /\ questions # <<>> =>
          /\ Ran("vector_store") /\ vector_store # <<>>
          /\ Ran("qa_chain") /\ qa_chain

C2_Witness ==
    /\ pc = "done"
    /\ stages = StageOrder
    /\ questions # <<>>

\* The replies printed so far, in order.
RepliesPrinted ==
    SelectSeq(printed, LAMBDA m : m # <<>> /\ m[1] = "Chatbot:")

GoodbyesPrinted ==
    SelectSeq(printed, LAMBDA m : m = <<"Chatbot: Goodbye!">>)

\* C4: once the loop has started, it ends exactly at the first input whose
\* lower-cased text is 'exit' or 'quit', printing Goodbye once and invoking
\* the chain zero times for it; every earlier input (the empty string and
\* ' exit' included) is forwarded to the chain exactly once, as typed, and
\* its reply is printed before the next input is read.
C4_LoopEndsAtFirstExitWord ==
    Ran("loop") =>
       LET n == Len(inputs)
           ended == n > 0 /\ lower(inputs[n]) \in ExitWords
           asked == IF ended THEN SubSeq(inputs, 1, n - 1) ELSE inputs
       IN  /\ \A i \in 1..(n - 1) : lower(inputs[i]) \notin ExitWords
           /\ questions = asked
           /\ RepliesPrinted = [i \in DOMAIN asked |-> <<"Chatbot:">> \o Answer(asked[i])]
           /\ pc = (IF ended THEN "done" ELSE "loop")
           /\ Len(GoodbyesPrinted) = (IF ended THEN 1 ELSE 0)

C4_Witness ==
    /\ pc = "done"
    /\ inputs = <<<<" ", "e", "x", "i", "t">>, <<"Q", "u", "I", "T">>>>
    /\ questions = <<<<" ", "e", "x", "i", "t">>>>

NoSourceYieldsData ==
    /\ news_articles = <<>>
    /\ IsEmpty(stock_data)
    /\ \A k \in DOMAIN financial_statements : IsEmpty(financial_statements[k][2])

\* C5: main() terminates before building the vector store, loading the
\* language model or entering the loop if and only if the document list is
\* empty, which is exactly when there are no news articles, every statement
\* table is empty and the stock table is empty; whenever a source yields
\* data the vector store is built over a non-empty document list.
C5_StopsEarlyOnlyWithoutData ==
    pc \in {"done", "crashed"} =>
       /\ ~Ran("vector_store") <=> documents = <<>>
       /\ documents = <<>> <=> NoSourceYieldsData
       /\ ~NoSourceYieldsData => Ran("vector_store") /\ vector_store # <<>>

StockDocuments ==
    SelectSeq(documents, LAMBDA d : d.metadata.source = "stock_data")

\* C6: the stock-data document is added if and only if the fetched stock
\* table is non-empty; when added it is added once, as the last document,
\* with source 'stock_data', built from the last min(7, rows) rows; when the
\* table is empty the list from prepare_all_documents is left unchanged.
C6_StockDocumentLastAndOnce ==
    Ran("documents") /\ pc # "crashed" =>
       LET prepared == prepare_all_documents(news_articles, financial_statements).result
           rows == stock_data.rows
           n == Len(rows)
           m == IF n < TailRows THEN n ELSE TailRows
       IN  IF n = 0
           THEN /\ documents = prepared
                /\ StockDocuments = <<>>
           ELSE /\ Len(documents) = Len(prepared) + 1
                /\ SubSeq(documents, 1, Len(prepared)) = prepared
                /\ Len(StockDocuments) = 1
                /\ LET last == documents[Len(documents)]
                   IN  /\ last.metadata.source = "stock_data"
                       /\ Len(last.page_content) = 1 + m
                       /\ \A j \in 1..m :
                             last.page_content[1 + j] =
                                <<strftime(rows[n - m + j]["Date"]),
                                  rows[n - m + j]["Close"]>>

C6_Witness ==
    /\ pc = "prepared"
    /\ Len(stock_data.rows) > TailRows
    /\ Len(documents) > 1
    /\ documents[Len(documents)].metadata.source = "stock_data"

\* The outcomes C7 names: a request failure, an empty response, or data (a
\* list of records that carry a date).
RequestFailure(resp) == resp.kind \in {"transport_error", "http_error"}

EmptyResponse(resp) ==
    resp.kind = "json" /\ resp.type = "array" /\ resp.items = <<>>

DataReturned(resp) ==
    /\ resp.kind = "json" /\ resp.type = "array" /\ resp.items # <<>>
    /\ \E i \in DOMAIN resp.items : HasKey(resp.items[i], "date")

\* C7: for every combination of per-endpoint outcomes (data returned, empty
\* response, request failure) get_financial_statements returns a mapping
\* with exactly the keys income_statement, balance_sheet, cash_flow, in that
\* order; a failing or empty endpoint gets an empty table and neither stops
\* the remaining fetches nor changes the other entries.
C7_ThreeKeysWhateverFails ==
    Ran("statements")
    /\ (\A k \in DOMAIN StatementTypes :
           \/ RequestFailure(responses.statements[k])
           \/ EmptyResponse(responses.statements[k])
           \/ DataReturned(responses.statements[k]))
    => /\ ~Escaped("statements")
       /\ [k \in DOMAIN financial_statements |-> financial_statements[k][1]]
             = StatementTypes
       /\ \A k \in DOMAIN StatementTypes :
             LET resp == responses.statements[k]
                 df == financial_statements[k][2]
             IN  IF DataReturned(resp)
                 THEN LET given == ConvertDates(DataFrame(resp.items), "date")
                      IN  df.rows = SelectSeq(given.rows, LAMBDA r : r["date"].valid)
                 ELSE df = EmptyFrame

C7_Witness ==
    /\ pc = "fetched"
    /\ RequestFailure(responses.statements[1])
    /\ DataReturned(responses.statements[2])
    /\ EmptyResponse(responses.statements[3])
    /\ Len(financial_statements) = 3
    /\ ~IsEmpty(financial_statements[2][2])

\* ---------------------------------------------- claims on the direct calls

\* The rows of a frame whose date is valid, in order.
ValidRows(df, col) == SelectSeq(df.rows, LAMBDA r : r[col].valid)

\* No row is dated after the latest date of the rows.
NoneAfterLast(rows, col) ==
    \A i \in DOMAIN rows :
       /\ rows[i][col].valid
       /\ \E j \in DOMAIN rows :
             /\ rows[i][col].ord <= rows[j][col].ord
             /\ \A h \in DOMAIN rows : rows[h][col].ord <= rows[j][col].ord

\* C8: in get_stock_data and get_financial_statements the date filtering
\* keeps exactly the rows whose date is parseable: every row with an
\* unparseable date is removed and the "up to the last available date"
\* filter removes no further row, so every returned row has a valid date not
\* later than the latest date of the returned table.
C8_OnlyUnparseableDatesDropped ==
    /\ Ran("get_financial_statements") /\ Len(financial_statements) = Len(StatementTypes) =>
          \A k \in DOMAIN StatementTypes :
             DataReturned(responses.statements[k]) =>
                LET given == ConvertDates(DataFrame(responses.statements[k].items), "date")
                    df == financial_statements[k][2]
                IN  /\ df.rows = ValidRows(given, "date")
                    /\ NoneAfterLast(df.rows, "date")
    /\ Ran("get_stock_data") /\ responses.stock.rows # <<>> =>
          LET given == ConvertDates([columns |-> responses.stock.columns,
                                     rows |-> responses.stock.rows], "Date")
          IN  /\ stock_data.rows = ValidRows(given, "Date")
              /\ NoneAfterLast(stock_data.rows, "Date")

C8_Witness ==
    /\ pc = "statements"
    /\ \E k \in DOMAIN StatementTypes :
          /\ DataReturned(responses.statements[k])
          /\ Len(responses.statements[k].items) = 3
          /\ \E i \in 1..3 :
                ~to_datetime(Cell(responses.statements[k].items[i], "date")).valid
          /\ Len(financial_statements[k][2].rows) = 2
          /\ financial_statements[k][2].rows[1]["date"]
                # financial_statements[k][2].rows[2]["date"]

\* The number of rows of the non-empty tables before the k-th.
RECURSIVE RowsBefore(_, _)
RowsBefore(statements, k) ==
    IF k <= 1 THEN 0
    ELSE RowsBefore(statements, k - 1) +
         (IF IsEmpty(statements[k - 1][2]) THEN 0 ELSE Len(statements[k - 1][2].rows))

\* The metric lines C9 states for a row with these columns.
StatedMetrics(columns) ==
    LET has(c) == \E i \in DOMAIN columns : columns[i] = c
    IN  IF has("revenue") THEN <<"revenue", "netIncome", "eps">>
        ELSE IF has("totalAssets")
             THEN <<"totalAssets", "totalLiabilities", "totalStockholdersEquity">>
        ELSE IF has("operatingCashFlow")
             THEN <<"operatingCashFlow", "capitalExpenditure", "freeCashFlow">>
        ELSE SelectSeq(columns, LAMBDA c : c # "date")

\* The labels of the metric lines of a financial document.
LineLabels(doc) ==
    [j \in 1..(Len(doc.page_content) - 1) |-> doc.page_content[j + 1][1]]

\* C9: for every row prepare_financial_documents selects the metric lines by
\* the first matching rule (revenue, else totalAssets, else
\* operatingCashFlow, else every column), in the listed order, and 'date' is
\* never a metric line.
C9_MetricLinesByFirstMatchingRule ==
    Ran("prepare_all_documents") =>
       \A k \in DOMAIN financial_statements :
          LET df == financial_statements[k][2]
          IN  ~IsEmpty(df) =>
                 \A i \in DOMAIN df.rows :
                    LET at == Len(news_articles) + RowsBefore(financial_statements, k) + i
                    IN  /\ at <= Len(documents)
                        /\ LineLabels(documents[at]) = StatedMetrics(df.columns)

\* C3: prepare_all_documents returns the news documents followed by the
\* financial documents: one per article in input order, then one per row of
\* every non-empty table in statement order and row order; its length is the
\* number of articles plus the rows of the non-empty tables.
C3_NewsThenEveryStatementRow ==
    Ran("prepare_all_documents") =>
       /\ Len(documents) = Len(news_articles)
             + RowsBefore(financial_statements, Len(financial_statements) + 1)
       /\ \A i \in DOMAIN news_articles :
             /\ documents[i].metadata.source = "news"
             /\ documents[i].metadata.title = Get(news_articles[i], "title")
       /\ \A k \in DOMAIN financial_statements :
             LET df == financial_statements[k][2]
             IN  ~IsEmpty(df) =>
                    \A i \in DOMAIN df.rows :
                       documents[Len(news_articles)
                                 + RowsBefore(financial_statements, k) + i].metadata
                          = [source |-> financial_statements[k][1],
                             date |-> strftime(df.rows[i]["date"])]

====
